---- MODULE Spec2Model ----
(***************************************************************************)
(* Model of A4/geoFunctions.py: band selection, collection aggregation,    *)
(* the EVI expression and the EVI time series over an image collection of  *)
(* the Earth Engine backend.                                               *)
(*                                                                         *)
(* Time is counted in units of 1/UnitsPerDay of a day (the code's          *)
(* 'system:time_start' is in milliseconds); a calendar date 'YYYY-MM-DD'   *)
(* is the number of its day.  Pixel values are integers, values computed   *)
(* by the expression engine are exact rationals.  An image carries one     *)
(* pixel per band inside its footprint.                                    *)
(***************************************************************************)
EXTENDS Integers, Sequences, FiniteSets, TLC

VARIABLES
    session,     \* the backend session was initialised by ee.Initialize()
    dataset,     \* the images of the named collection, in the backend's order
    pc,          \* position of the running call: "idle", "agg", "ts", "done"
    call,        \* the running call: function, arguments, session at entry
    collection,  \* the local variable `collection` of the running call
    backendOps,  \* operations requested from the backend by the running call
    fault,       \* the failure the backend raised during the running call
    result,      \* the value returned by the call
    error        \* the exception that left the call

vars == <<session, dataset, pc, call, collection, backendOps, fault, result, error>>

----------------------------------------------------------------------------
(* Bounds of the model *)

MaxDay == 2
UnitsPerDay == 2
MaxImages == 2
MaxPix == 2

(* reduceRegion(..., scale=30) *)
scale == 30

----------------------------------------------------------------------------
(* Values *)

None == [type |-> "None"]

Null == [kind |-> "null", num |-> 0, den |-> 1]
EngineDefined == [kind |-> "engine", num |-> 0, den |-> 1]

RECURSIVE GCD(_, _)
GCD(a, b) == IF b = 0 THEN a ELSE GCD(b, a % b)

Abs(x) == IF x < 0 THEN -x ELSE x

(* the rational n/d in lowest terms, d # 0 *)
Rat(n, d) ==
    LET g == GCD(Abs(n), Abs(d))
        s == IF d < 0 THEN -1 ELSE 1
    IN  [kind |-> "num", num |-> (s * n) \div g, den |-> (s * d) \div g]

Num(n) == Rat(n, 1)

(* a missing operand makes the result missing, as a masked pixel does *)
Lift(a, b, v) ==
    IF a.kind = "null" \/ b.kind = "null" THEN Null
    ELSE IF a.kind = "engine" \/ b.kind = "engine" THEN EngineDefined
    ELSE v

Add(a, b) == Lift(a, b, Rat(a.num * b.den + b.num * a.den, a.den * b.den))
Sub(a, b) == Lift(a, b, Rat(a.num * b.den - b.num * a.den, a.den * b.den))
Mul(a, b) == Lift(a, b, Rat(a.num * b.num, a.den * b.den))
(* what a division by zero yields is the engine's business *)
Div(a, b) ==
    Lift(a, b, IF b.num = 0 THEN EngineDefined
               ELSE Rat(a.num * b.den, a.den * b.num))

----------------------------------------------------------------------------
(* Images of the backend *)

Bands == {"B2", "B3", "B4", "B8"}
NoTime == -1
Footprints == {{1}, {2}}
AOIs == {{1}}

Pixels == [Bands -> 0..MaxPix]
SamplePixel == [b \in Bands |-> IF b = "B8" THEN 2 ELSE IF b = "B4" THEN 1 ELSE 0]

Times == 0..(MaxDay * UnitsPerDay - 1)
Days == 0..MaxDay

Image(t, f, m, px) ==
    [type |-> "Image", time_start |-> t, footprint |-> f, masked |-> m,
     bands |-> [b \in Bands |-> Num(px[b])]]

(* image.select(band) *)
ImageSelect(image, band) ==
    [image EXCEPT !.bands = [b \in {band} |-> image.bands[b]]]

(* the value of the only band of a single-band image *)
OnlyBand(image) == image.bands[CHOOSE b \in DOMAIN image.bands : TRUE]

Return(v) == [raised |-> FALSE, value |-> v, error |-> None]
Raise(e) == [raised |-> TRUE, value |-> None, error |-> e]

ValueError(text, available) ==
    [type |-> "ValueError", text |-> text, available |-> available]

----------------------------------------------------------------------------
(* select_bands *)

band_mapping ==
    [n \in {"RED", "GREEN", "BLUE", "NIR"} |->
        CASE n = "RED" -> "B4"
          [] n = "GREEN" -> "B3"
          [] n = "BLUE" -> "B2"
          [] n = "NIR" -> "B8"]

(* mutant: a name outside the mapping passes the image through *)
select_bands_passthrough(image, index_name) ==
    IF index_name \in DOMAIN band_mapping
    THEN Return(ImageSelect(image, band_mapping[index_name]))
    ELSE Return(image)

(* mutant: the bands of RED and GREEN are exchanged *)
select_bands_swapped(image, index_name) ==
    IF index_name \in DOMAIN band_mapping
    THEN Return(ImageSelect(image,
                    CASE index_name = "RED" -> "B3"
                      [] index_name = "GREEN" -> "B4"
                      [] OTHER -> band_mapping[index_name]))
    ELSE Raise(ValueError("Unsupported index! Available:",
                          <<"RED", "GREEN", "BLUE", "NIR">>))

select_bands(image, index_name) ==
    IF index_name \in DOMAIN band_mapping
    THEN Return(ImageSelect(image, band_mapping[index_name]))
    ELSE Raise(ValueError("Unsupported index! Available:",
                          <<"RED", "GREEN", "BLUE", "NIR">>))

----------------------------------------------------------------------------
(* calculateEVI *)

(* mutant: the coefficients of RED and BLUE are exchanged *)
EVIExpression_coefficients(image, blue, red, nir) ==
    LET NIR == OnlyBand(nir)
        RED == OnlyBand(red)
        BLUE == OnlyBand(blue)
        v == Mul(Rat(5, 2),
                 Div(Sub(NIR, RED),
                     Add(Sub(Add(NIR, Mul(Rat(15, 2), RED)), Mul(Num(6), BLUE)),
                         Num(1))))
    IN  [type |-> "Image", time_start |-> NoTime, footprint |-> image.footprint,
         masked |-> image.masked \/ blue.masked \/ red.masked \/ nir.masked,
         bands |-> [b \in {"constant"} |-> v]]

(* image.expression('2.5 * ((NIR - RED) / (NIR + 6 * RED - 7.5 * BLUE + 1))',
   {'NIR': nir, 'RED': red, 'BLUE': blue}): the result has one band, named by
   the engine, and none of the image's properties *)
EVIExpression(image, blue, red, nir) ==
    LET NIR == OnlyBand(nir)
        RED == OnlyBand(red)
        BLUE == OnlyBand(blue)
        v == Mul(Rat(5, 2),
                 Div(Sub(NIR, RED),
                     Add(Sub(Add(NIR, Mul(Num(6), RED)), Mul(Rat(15, 2), BLUE)),
                         Num(1))))
    IN  [type |-> "Image", time_start |-> NoTime, footprint |-> image.footprint,
         masked |-> image.masked \/ blue.masked \/ red.masked \/ nir.masked,
         bands |-> [b \in {"constant"} |-> v]]

(* image.rename(name) of a single-band image *)
ImageRename(image, name) ==
    [image EXCEPT !.bands = [b \in {name} |-> OnlyBand(image)]]

calculateEVI(image, blue, red, nir) ==
    ImageRename(EVIExpression(image, blue, red, nir), "EVI")

----------------------------------------------------------------------------
(* The backend's collections, dates and dictionaries *)

(* 'YYYY-MM-DD' as the backend reads it: the first instant of that day *)
DateStart(date) == date * UnitsPerDay

(* mutant: the end of the range is inclusive *)
FilterDate_inclusive(coll, start_date, end_date) ==
    SelectSeq(coll, LAMBDA im : /\ DateStart(start_date) <= im.time_start
                                /\ im.time_start <= DateStart(end_date))

(* collection.filterDate(start, end): start inclusive, end exclusive *)
FilterDate(coll, start_date, end_date) ==
    SelectSeq(coll, LAMBDA im : /\ DateStart(start_date) <= im.time_start
                                /\ im.time_start < DateStart(end_date))

(* collection.filterBounds(aoi): the images whose footprint meets aoi *)
FilterBounds(coll, aoi) ==
    SelectSeq(coll, LAMBDA im : im.footprint \cap aoi # {})

(* ee.Date(t).format('YYYY-MM-dd'): the calendar day of the instant *)
DateFormat(t) == IF t = NoTime THEN NoTime ELSE t \div UnitsPerDay

(* pd.to_datetime('YYYY-MM-DD'): the first instant of that day *)
to_datetime(date) == IF date = NoTime THEN NoTime ELSE date * UnitsPerDay

EEException == [type |-> "EEException", text |-> "backend", available |-> <<>>]
KeyError == [type |-> "KeyError", text |-> "EVI", available |-> <<>>]

(* image.reduceRegion(ee.Reducer.mean(), aoi, scale): per band, the mean of
   the unmasked pixels in aoi, null when there is none *)
ReduceRegionMean(image, aoi, sc) ==
    [b \in DOMAIN image.bands |->
        IF image.masked \/ image.footprint \cap aoi = {} THEN Null
        ELSE image.bands[b]]

(* dictionary.get(key) *)
DictGet(dict, key) == IF key \in DOMAIN dict THEN dict[key] ELSE Null

(* collection.mean(), .median(), .sum(), .min(), .max(): the backend's
   reduction of the collection to one image *)
Reduce(coll, reducer) == [type |-> "Image", reducer |-> reducer, of |-> coll]

----------------------------------------------------------------------------
(* aggregate_image_collection *)

Methods == {"mean", "median", "sum", "min", "max", "average", "MEAN"}

(* mutant: an unknown method falls back to the mean *)
AggregateDispatch_default(coll, aggregation_method) ==
    IF aggregation_method = "median" THEN Return(Reduce(coll, "median"))
    ELSE IF aggregation_method = "sum" THEN Return(Reduce(coll, "sum"))
    ELSE IF aggregation_method = "min" THEN Return(Reduce(coll, "min"))
    ELSE IF aggregation_method = "max" THEN Return(Reduce(coll, "max"))
    ELSE Return(Reduce(coll, "mean"))

(* mutant: min and max are exchanged *)
AggregateDispatch_swapped(coll, aggregation_method) ==
    IF aggregation_method = "mean" THEN Return(Reduce(coll, "mean"))
    ELSE IF aggregation_method = "median" THEN Return(Reduce(coll, "median"))
    ELSE IF aggregation_method = "sum" THEN Return(Reduce(coll, "sum"))
    ELSE IF aggregation_method = "min" THEN Return(Reduce(coll, "max"))
    ELSE IF aggregation_method = "max" THEN Return(Reduce(coll, "min"))
    ELSE Raise(ValueError("Wrong aggregation method! Available:",
                          <<"mean", "median", "sum", "min", "max">>))

(* the if/elif chain over aggregation_method *)
AggregateDispatch(coll, aggregation_method) ==
    IF aggregation_method = "mean" THEN Return(Reduce(coll, "mean"))
    ELSE IF aggregation_method = "median" THEN Return(Reduce(coll, "median"))
    ELSE IF aggregation_method = "sum" THEN Return(Reduce(coll, "sum"))
    ELSE IF aggregation_method = "min" THEN Return(Reduce(coll, "min"))
    ELSE IF aggregation_method = "max" THEN Return(Reduce(coll, "max"))
    ELSE Raise(ValueError("Wrong aggregation method! Available:",
                          <<"mean", "median", "sum", "min", "max">>))

(* mutant: the method is checked first and an unknown one leaves the call
   before ee.Initialize() *)
AggInitialize_checkFirst(start_date, end_date, aggregation_method) ==
    /\ pc = "idle"
    /\ call' = [fn |-> "aggregate_image_collection",
                start_date |-> start_date, end_date |-> end_date, aoi |-> {},
                method |-> aggregation_method, session0 |-> session]
    /\ IF aggregation_method \in {"mean", "median", "sum", "min", "max"}
       THEN /\ session' = TRUE
            /\ backendOps' = <<"Initialize">>
            /\ pc' = "agg"
            /\ UNCHANGED <<dataset, collection, fault, result, error>>
       ELSE /\ error' = ValueError("Wrong aggregation method! Available:",
                                   <<"mean", "median", "sum", "min", "max">>)
            /\ pc' = "done"
            /\ UNCHANGED <<session, backendOps, dataset, collection, fault, result>>

(* entry and ee.Initialize(), which succeeds *)
AggInitialize(start_date, end_date, aggregation_method) ==
    /\ pc = "idle"
    /\ call' = [fn |-> "aggregate_image_collection",
                start_date |-> start_date, end_date |-> end_date, aoi |-> {},
                method |-> aggregation_method, session0 |-> session]
    /\ session' = TRUE
    /\ backendOps' = <<"Initialize">>
    /\ pc' = "agg"
    /\ UNCHANGED <<dataset, collection, fault, result, error>>

(* entry and ee.Initialize(), which fails: nothing catches the failure *)
AggInitializeFails(start_date, end_date, aggregation_method) ==
    /\ pc = "idle"
    /\ call' = [fn |-> "aggregate_image_collection",
                start_date |-> start_date, end_date |-> end_date, aoi |-> {},
                method |-> aggregation_method, session0 |-> session]
    /\ backendOps' = <<"Initialize">>
    /\ fault' = EEException
    /\ error' = EEException
    /\ pc' = "done"
    /\ UNCHANGED <<session, dataset, collection, result>>

(* the collection, filtered by date, and the dispatch on the method *)
AggReduce ==
    /\ pc = "agg"
    /\ LET coll == FilterDate(dataset, call.start_date, call.end_date)
           out == AggregateDispatch(coll, call.method)
       IN  /\ collection' = coll
           /\ backendOps' = backendOps \o <<"ImageCollection", "filterDate">>
                              \o (IF out.raised THEN <<>> ELSE <<out.value.reducer>>)
           /\ result' = out.value
           /\ error' = out.error
    /\ pc' = "done"
    /\ UNCHANGED <<session, dataset, call, fault>>

----------------------------------------------------------------------------
(* calculate_time_series_EVI *)

(* the nested calc_evi *)
calc_evi(image) ==
    LET blue_band == select_bands(image, "BLUE").value
        red_band == select_bands(image, "RED").value
        nir_band == select_bands(image, "NIR").value
        evi == calculateEVI(image, blue_band, red_band, nir_band)
    IN  [evi EXCEPT !.time_start = image.time_start]

(* the nested reduce_region: a feature with the properties date and EVI *)
reduce_region(image, aoi) ==
    LET mean_value == ReduceRegionMean(image, aoi, scale)
    IN  [p \in {"date", "EVI"} |->
            IF p = "date" THEN [kind |-> "date", num |-> DateFormat(image.time_start), den |-> 1]
            ELSE DictGet(mean_value, "EVI")]

(* getInfo() of a feature: the backend either keeps a null property as None
   or leaves it out *)
FeatureInfo(feature, dropNull) ==
    [p \in {q \in DOMAIN feature : ~(dropNull /\ feature[q].kind = "null")} |->
        feature[p]]

(* the DataFrame of dates and values, indexed by Date *)
DataFrame(dates, values) ==
    [type |-> "DataFrame",
     rows |-> [i \in 1..Len(dates) |->
                  [Date |-> to_datetime(dates[i]), EVI |-> values[i]]]]

(* mutant: the features without a value are dropped *)
TimeSeriesTable_dropna(features) ==
    LET kept == SelectSeq(features,
                          LAMBDA f : "EVI" \in DOMAIN f /\ f["EVI"].kind # "null")
    IN  Return(DataFrame([i \in 1..Len(kept) |-> kept[i]["date"].num],
                         [i \in 1..Len(kept) |-> kept[i]["EVI"]]))

(* the table of the features, or the KeyError of a feature without the
   property *)
TimeSeriesTable(features) ==
    IF \E i \in 1..Len(features) : {"date", "EVI"} \ DOMAIN features[i] # {}
    THEN Raise(KeyError)
    ELSE Return(DataFrame([i \in 1..Len(features) |-> features[i]["date"].num],
                          [i \in 1..Len(features) |-> features[i]["EVI"]]))

(* entry and ee.Initialize(), which succeeds *)
TSInitialize(start_date, end_date, aoi) ==
    /\ pc = "idle"
    /\ call' = [fn |-> "calculate_time_series_EVI",
                start_date |-> start_date, end_date |-> end_date, aoi |-> aoi,
                method |-> "", session0 |-> session]
    /\ session' = TRUE
    /\ backendOps' = <<"Initialize">>
    /\ pc' = "ts"
    /\ UNCHANGED <<dataset, collection, fault, result, error>>

(* entry and ee.Initialize(), which fails *)
TSInitializeFails(start_date, end_date, aoi) ==
    /\ pc = "idle"
    /\ call' = [fn |-> "calculate_time_series_EVI",
                start_date |-> start_date, end_date |-> end_date, aoi |-> aoi,
                method |-> "", session0 |-> session]
    /\ backendOps' = <<"Initialize">>
    /\ fault' = EEException
    /\ error' = EEException
    /\ pc' = "done"
    /\ UNCHANGED <<session, dataset, collection, result>>

TSPipeline == <<"ImageCollection", "filterDate", "filterBounds", "map", "map", "getInfo">>

(* the filtered collection, both maps, the one getInfo() and the table *)
TSGetInfo(dropNull) ==
    /\ pc = "ts"
    /\ LET coll == FilterBounds(FilterDate(dataset, call.start_date, call.end_date),
                                call.aoi)
           evi_collection == [i \in 1..Len(coll) |-> calc_evi(coll[i])]
           reduced == [i \in 1..Len(coll) |->
                          reduce_region(evi_collection[i], call.aoi)]
           features == [i \in 1..Len(coll) |-> FeatureInfo(reduced[i], dropNull)]
           out == TimeSeriesTable(features)
       IN  /\ collection' = coll
           /\ result' = out.value
           /\ error' = out.error
    /\ backendOps' = backendOps \o TSPipeline
    /\ pc' = "done"
    /\ UNCHANGED <<session, dataset, call, fault>>

(* mutant: the failure of getInfo() is caught and an empty table returned *)
TSGetInfoFails_caught ==
    /\ pc = "ts"
    /\ collection' = FilterBounds(FilterDate(dataset, call.start_date, call.end_date),
                                  call.aoi)
    /\ backendOps' = backendOps \o TSPipeline
    /\ fault' = EEException
    /\ result' = DataFrame(<<>>, <<>>)
    /\ pc' = "done"
    /\ UNCHANGED <<session, dataset, call, error>>

(* getInfo() fails: nothing catches the failure, no table is built *)
TSGetInfoFails ==
    /\ pc = "ts"
    /\ collection' = FilterBounds(FilterDate(dataset, call.start_date, call.end_date),
                                  call.aoi)
    /\ backendOps' = backendOps \o TSPipeline
    /\ fault' = EEException
    /\ error' = EEException
    /\ pc' = "done"
    /\ UNCHANGED <<session, dataset, call, result>>

----------------------------------------------------------------------------
(* Calls of select_bands and calculateEVI on their own *)

IndexNames == {"RED", "GREEN", "BLUE", "NIR", "PURPLE", "red"}

SelectBandsCall(image, index_name) ==
    /\ pc = "idle"
    /\ call' = [fn |-> "select_bands", image |-> image, index_name |-> index_name]
    /\ LET out == select_bands(image, index_name)
       IN  /\ result' = out.value
           /\ error' = out.error
           /\ backendOps' = IF out.raised THEN <<>> ELSE <<"select">>
    /\ pc' = "done"
    /\ UNCHANGED <<session, dataset, collection, fault>>

CalculateEVICall(image, blue, red, nir) ==
    /\ pc = "idle"
    /\ call' = [fn |-> "calculateEVI", image |-> image,
                blue |-> blue, red |-> red, nir |-> nir]
    /\ result' = calculateEVI(image, blue, red, nir)
    /\ backendOps' = <<"expression", "rename">>
    /\ pc' = "done"
    /\ UNCHANGED <<session, dataset, collection, fault, error>>

(* the call is over: its locals are gone, the session stays *)
Finish ==
    /\ pc = "done"
    /\ pc' = "idle"
    /\ call' = None
    /\ collection' = <<>>
    /\ backendOps' = <<>>
    /\ fault' = None
    /\ result' = None
    /\ error' = None
    /\ UNCHANGED <<session, dataset>>

----------------------------------------------------------------------------
(* Specifications *)

RECURSIVE SeqsUpTo(_, _)
SeqsUpTo(S, n) ==
    IF n = 0 THEN {<<>>}
    ELSE LET shorter == SeqsUpTo(S, n - 1)
         IN  shorter \cup {Append(s, x) : s \in shorter, x \in S}

TSImages == {Image(t, f, m, SamplePixel) : t \in Times, f \in Footprints, m \in BOOLEAN}
AggImages == {Image(t, {1}, FALSE, SamplePixel) : t \in Times}
BandImages == {Image(0, {1}, m, px) : m \in BOOLEAN, px \in Pixels}

(* the calls made: start_date before end_date *)
DateRanges == {r \in Days \X Days : r[1] < r[2]}

Idle ==
    /\ session = FALSE
    /\ pc = "idle"
    /\ call = None
    /\ collection = <<>>
    /\ backendOps = <<>>
    /\ fault = None
    /\ result = None
    /\ error = None

(* calculate_time_series_EVI over every small collection *)
Init == Idle /\ dataset \in SeqsUpTo(TSImages, MaxImages)

Next ==
    \/ \E r \in DateRanges, aoi \in AOIs : TSInitialize(r[1], r[2], aoi)
    \/ \E r \in DateRanges, aoi \in AOIs : TSInitializeFails(r[1], r[2], aoi)
    \/ \E dropNull \in BOOLEAN : TSGetInfo(dropNull)
    \/ TSGetInfoFails
    \/ Finish

Spec == Init /\ [][Next]_vars

(* aggregate_image_collection over every small collection *)
InitAgg == Idle /\ dataset \in SeqsUpTo(AggImages, MaxImages)

NextAgg ==
    \/ \E r \in DateRanges, m \in Methods : AggInitialize(r[1], r[2], m)
    \/ \E r \in DateRanges, m \in Methods : AggInitializeFails(r[1], r[2], m)
    \/ AggReduce
    \/ Finish

SpecAgg == InitAgg /\ [][NextAgg]_vars

(* select_bands and calculateEVI over every small image *)
InitBands == Idle /\ dataset = <<>>

NextBands ==
    \/ \E image \in BandImages, n \in IndexNames : SelectBandsCall(image, n)
    \/ \E image \in BandImages, nb, nr, nn \in DOMAIN band_mapping :
          CalculateEVICall(image,
                           select_bands(image, nb).value,
                           select_bands(image, nr).value,
                           select_bands(image, nn).value)
    \/ Finish

SpecBands == InitBands /\ [][NextBands]_vars

----------------------------------------------------------------------------
(* Properties *)

ValidIndexNames == {"RED", "GREEN", "BLUE", "NIR"}
ValidMethods == {"mean", "median", "sum", "min", "max"}

SelectBandsDone == pc = "done" /\ call.fn = "select_bands"
CalculateEVIDone == pc = "done" /\ call.fn = "calculateEVI"
AggDone == pc = "done" /\ call.fn = "aggregate_image_collection"
TSDone == pc = "done" /\ call.fn = "calculate_time_series_EVI"

Count(seq, x) == Cardinality({i \in 1..Len(seq) : seq[i] = x})

(* the positions of the images of the dataset taken at or after the start of
   start_date and before the start of end_date *)
InDateRange(start_date, end_date) ==
    {i \in 1..Len(dataset) :
        /\ start_date * UnitsPerDay <= dataset[i].time_start
        /\ dataset[i].time_start < end_date * UnitsPerDay}

Intersecting(aoi) == {i \in 1..Len(dataset) : dataset[i].footprint \cap aoi # {}}

(* the increasing enumerations of the positions idx *)
Enumerations(idx) ==
    {f \in [1..Cardinality(idx) -> idx] :
        \A i, j \in 1..Cardinality(idx) : i < j => f[i] < f[j]}

(* C1 as stated: a name outside RED, GREEN, BLUE, NIR makes select_bands fail
   with an UnsupportedIndexError that carries the valid names, and no band is
   selected *)
C1_UnsupportedIndexError ==
    SelectBandsDone /\ call.index_name \notin ValidIndexNames
        => /\ error.type = "UnsupportedIndexError"
           /\ error.available = <<"RED", "GREEN", "BLUE", "NIR">>
           /\ result = None
           /\ backendOps = <<>>

(* C1 as amended: a name outside RED, GREEN, BLUE, NIR makes select_bands fail
   with a ValueError whose message lists RED, GREEN, BLUE, NIR; nothing is
   returned and no band is selected *)
C1_ValueErrorListsNames ==
    SelectBandsDone /\ call.index_name \notin ValidIndexNames
        => /\ error.type = "ValueError"
           /\ error.text = "Unsupported index! Available:"
           /\ error.available = <<"RED", "GREEN", "BLUE", "NIR">>
           /\ result = None
           /\ backendOps = <<>>

C1_Witness ==
    /\ SelectBandsDone
    /\ call.index_name = "PURPLE"
    /\ error.type = "ValueError"

(* C5: for RED, GREEN, BLUE, NIR select_bands returns the image restricted to
   B4, B3, B2, B8 respectively, with the values and properties of the given
   image, which keeps all its bands *)
C5_MappedBand ==
    SelectBandsDone /\ call.index_name \in ValidIndexNames
        => LET band == CASE call.index_name = "RED" -> "B4"
                         [] call.index_name = "GREEN" -> "B3"
                         [] call.index_name = "BLUE" -> "B2"
                         [] call.index_name = "NIR" -> "B8"
           IN  /\ error = None
               /\ DOMAIN result.bands = {band}
               /\ result.bands[band] = call.image.bands[band]
               /\ result.time_start = call.image.time_start
               /\ result.footprint = call.image.footprint
               /\ result.masked = call.image.masked
               /\ DOMAIN call.image.bands = Bands
               /\ backendOps = <<"select">>

C5_Witness ==
    /\ SelectBandsDone
    /\ call.index_name = "NIR"
    /\ DOMAIN result.bands = {"B8"}
    /\ call.image.bands["B8"] # call.image.bands["B4"]

(* C8: calculateEVI gives one band, named EVI whatever the bands of blue, red
   and nir are called, whose value is 2.5*(n-r)/(n+6r-7.5b+1) wherever
   n+6r-7.5b+1 is not zero *)
C8_Formula ==
    CalculateEVIDone
        => LET b == OnlyBand(call.blue).num
               r == OnlyBand(call.red).num
               n == OnlyBand(call.nir).num
               twiceDen == 2 * n + 12 * r - 15 * b + 2
           IN  /\ DOMAIN result.bands = {"EVI"}
               /\ twiceDen # 0
                    => /\ result.bands["EVI"].kind = "num"
                       /\ result.bands["EVI"].den # 0
                       /\ result.bands["EVI"].num * twiceDen
                            = 5 * (n - r) * result.bands["EVI"].den

C8_Witness ==
    /\ CalculateEVIDone
    /\ DOMAIN call.blue.bands = {"B8"}
    /\ DOMAIN call.nir.bands = {"B3"}
    /\ OnlyBand(call.blue).num = 1
    /\ OnlyBand(call.red).num = 2
    /\ OnlyBand(call.nir).num = 0
    /\ result.bands["EVI"] = Rat(-10, 11)

(* C2 as stated: a method outside mean, median, sum, min, max makes
   aggregate_image_collection fail with an UnsupportedAggregationError naming
   the valid methods, and no image is returned (looked at where the backend
   itself did not fail) *)
C2_UnsupportedAggregationError ==
    AggDone /\ call.method \notin ValidMethods /\ fault = None
        => /\ error.type = "UnsupportedAggregationError"
           /\ error.available = <<"mean", "median", "sum", "min", "max">>
           /\ result = None

(* C2 as amended: a method outside mean, median, sum, min, max makes
   aggregate_image_collection return no image and fail, with a ValueError
   whose message names mean, median, sum, min, max when ee.Initialize()
   succeeded and with the backend's error when it failed *)
C2_ValueErrorNamesMethods ==
    AggDone /\ call.method \notin ValidMethods
        => /\ result = None
           /\ fault = None
                => /\ error.type = "ValueError"
                   /\ error.text = "Wrong aggregation method! Available:"
                   /\ error.available = <<"mean", "median", "sum", "min", "max">>
           /\ fault # None => error = fault

C2_Witness ==
    /\ AggDone
    /\ call.method = "average"
    /\ error.type = "ValueError"
    /\ Len(collection) > 0

(* C6: for mean, median, sum, min, max aggregate_image_collection returns the
   reduction of that name over the images of the collection taken in
   [start_date, end_date), in the collection's order *)
C6_SameReduction ==
    AggDone /\ call.method \in ValidMethods /\ fault = None
        => LET idx == InDateRange(call.start_date, call.end_date)
           IN  /\ error = None
               /\ result.type = "Image"
               /\ result.reducer = call.method
               /\ Len(result.of) = Cardinality(idx)
               /\ \E f \in Enumerations(idx) :
                     \A i \in 1..Len(result.of) : result.of[i] = dataset[f[i]]

C6_Witness ==
    /\ AggDone
    /\ call.method = "median"
    /\ result.type = "Image"
    /\ Len(result.of) = 1
    /\ Len(dataset) = 2
    /\ dataset[2].time_start = call.end_date * UnitsPerDay

(* C10 as stated: an invalid method is rejected before any backend operation,
   so the call requests nothing from the backend and leaves the session as it
   was (looked at where the backend itself did not fail) *)
C10_RejectedBeforeBackend ==
    AggDone /\ call.method \notin ValidMethods /\ fault = None
        => /\ backendOps = <<>>
           /\ session = call.session0

(* C10 as amended: an invalid method is rejected only after ee.Initialize()
   and after the collection is looked up and date-filtered, before any
   reduction is requested; the ValueError leaves the session initialised *)
C10_RejectedAfterInitialize ==
    /\ AggDone /\ call.method \notin ValidMethods /\ error.type = "ValueError"
         => /\ backendOps = <<"Initialize", "ImageCollection", "filterDate">>
            /\ session = TRUE
    /\ pc = "agg" => error = None /\ session = TRUE /\ backendOps = <<"Initialize">>

C10_Witness ==
    /\ AggDone
    /\ call.method = "MEAN"
    /\ call.session0 = FALSE
    /\ session = TRUE
    /\ error.type = "ValueError"

(* C3: the table returned by calculate_time_series_EVI is sorted ascending by
   date *)
C3_SortedByDate ==
    TSDone /\ result # None
        => \A i, j \in 1..Len(result.rows) :
              i < j => result.rows[i].Date <= result.rows[j].Date

(* C4: the returned table has one row per image of the collection taken in
   [start_date, end_date) over the area of interest; the row of an image
   without data holds the missing value, the row of an image with data a
   number; images of the same day have a row each *)
C4_OneRowPerImage ==
    TSDone /\ result # None
        => LET idx == InDateRange(call.start_date, call.end_date)
                        \cap Intersecting(call.aoi)
           IN  /\ Len(result.rows) = Cardinality(idx)
               /\ \E f \in Enumerations(idx) :
                     \A i \in 1..Len(result.rows) :
                        /\ dataset[f[i]].masked => result.rows[i].EVI = Null
                        /\ ~dataset[f[i]].masked => result.rows[i].EVI.kind = "num"

C4_Witness ==
    /\ TSDone
    /\ result # None
    /\ Len(result.rows) = 2
    /\ result.rows[1].Date = result.rows[2].Date
    /\ dataset[1].time_start # dataset[2].time_start
    /\ result.rows[1].EVI = Null
    /\ result.rows[2].EVI.kind = "num"

(* C7: the rows of the returned table are, in order, the images of the
   collection taken in [start_date, end_date) that meet the area of interest,
   each row dated with the day its image was taken *)
C7_DatesOfFilteredImages ==
    TSDone /\ result # None
        => LET idx == InDateRange(call.start_date, call.end_date)
                        \cap Intersecting(call.aoi)
           IN  /\ Len(result.rows) = Cardinality(idx)
               /\ \E f \in Enumerations(idx) :
                     \A i \in 1..Len(result.rows) :
                        result.rows[i].Date
                           = (dataset[f[i]].time_start \div UnitsPerDay) * UnitsPerDay
               /\ \A i \in 1..Len(result.rows) :
                     /\ call.start_date * UnitsPerDay <= result.rows[i].Date
                     /\ result.rows[i].Date < call.end_date * UnitsPerDay

C7_Witness ==
    /\ TSDone
    /\ result # None
    /\ Len(dataset) = 2
    /\ Len(result.rows) = 1
    /\ dataset[1].time_start = call.end_date * UnitsPerDay
    /\ dataset[1].footprint \cap call.aoi # {}
    /\ dataset[2].time_start = call.end_date * UnitsPerDay - 1
    /\ result.rows[1].Date = (call.end_date - 1) * UnitsPerDay

(* C9: when the backend fails during calculate_time_series_EVI, at
   ee.Initialize() or at getInfo(), the call ends with that very failure and
   without a table, and each of the two was requested once at most *)
C9_BackendFailurePropagates ==
    /\ TSDone /\ fault # None
         => /\ error = fault
            /\ result = None
    /\ Count(backendOps, "Initialize") <= 1
    /\ Count(backendOps, "getInfo") <= 1

C9_Witness ==
    /\ TSDone
    /\ fault = EEException
    /\ error = EEException
    /\ Count(backendOps, "getInfo") = 1
    /\ Len(collection) = 2

====
